---------------------------- MODULE Spec2Model ----------------------------
(***************************************************************************)
(* A model of WARCParser (src/lib/parsers/warcParser.js): the streaming    *)
(* recogniser of WARC record boundaries and record types, its sessions     *)
(* (start / parseWARC), the handlers it attaches to the line transport     *)
(* ('data', 'error', 'end') and the notifications it emits ('record',      *)
(* 'done', 'error').                                                       *)
(*                                                                         *)
(* The record builder (../warcRecordBuilder) and the sentinel table        *)
(* (./fieldIdentifiers) are required by the parser but are not part of the *)
(* source under study; they are modelled from the written specification.   *)
(***************************************************************************)
EXTENDS Naturals, Sequences, FiniteSets

(***************************************************************************)
(* Bounds of the model.                                                    *)
(***************************************************************************)
\* lines one session's transport delivers before it must end or fail
MaxLines == 3
\* lines the transport of the single session of SpecParse delivers
MaxParseLines == 5
\* sessions one parser begins
MaxSessions == 2

(***************************************************************************)
(* JavaScript values.                                                      *)
(***************************************************************************)
Null == "<null>"
Undef == "<undefined>"

\* the paths a caller passes: nothing, null, the empty string, two files
Paths == {Undef, Null, "", "a.warc", "b.warc"}

\* wp || this._wp takes the right operand for undefined, null and ''
Falsy(v) == v \in {Undef, Null, ""}

\* the errors a transport raises
Errors == {"EIO", "EBADLINE"}

(***************************************************************************)
(* SentinelTable (./fieldIdentifiers), compared by exact equality.         *)
(***************************************************************************)
Begin == "WARC/1.0"
Empty == ""
Req == "WARC-Type: request"
Res == "WARC-Type: response"
Revisit == "WARC-Type: revisit"
Info == "WARC-Type: warcinfo"
Mdata == "WARC-Type: metadata"

\* a line that is no sentinel
Other == "Content-Length: 0"

Lines == {Begin, Empty, Req, Res, Revisit, Info, Mdata, Other}

\* the lines the sessions of Spec are fed: a boundary, a blank line, one
\* type line and one content line
SessionLines == {Begin, Empty, Info, Other}

RecTypes == {"request", "response", "revisit", "info", "metadata"}

\* the type each type sentinel identifies
TypeOfLine(line) ==
  CASE line = Req -> "request"
    [] line = Res -> "response"
    [] line = Revisit -> "revisit"
    [] line = Info -> "info"
    [] line = Mdata -> "metadata"
    [] OTHER -> "Unknown"

(***************************************************************************)
(* RecordBuilder (../warcRecordBuilder), from the written specification:   *)
(* one slot per record type, addressed by the key its init returned.       *)
(***************************************************************************)
NoSlot == [live |-> FALSE, headers |-> <<>>, payload |-> <<>>]

NewBuilder == [t \in RecTypes |-> NoSlot]

\* the blank-line count at which lines stop being headers
Threshold(key) == IF key \in {"request", "response", "revisit"} THEN 2 ELSE 1

\* initReq / initRes / initRevist / initInfo / initMdata (bgn, line)
BuilderInit(b, type, bgn, line) ==
  [b EXCEPT ![type] = [live |-> TRUE, headers |-> <<bgn, line>>, payload |-> <<>>]]

\* the key an init returns
BuilderKey(type) == type

\* addLineTo(key, count, line): a no-op for a key that is not initialised
BuilderAddLineTo(b, key, count, line) ==
  IF key \notin RecTypes \/ ~b[key].live THEN b
  ELSE IF count < Threshold(key)
       THEN [b EXCEPT ![key].headers = Append(@, line)]
       ELSE [b EXCEPT ![key].payload = Append(@, line)]

EmptyRecord == [type |-> "Unknown", headers |-> <<>>, payload |-> <<>>]

\* buildRecord(key): the empty record for a key that is not initialised
BuilderBuildRecord(b, key) ==
  IF key \notin RecTypes \/ ~b[key].live THEN EmptyRecord
  ELSE [type |-> key, headers |-> b[key].headers, payload |-> b[key].payload]

\* clear()
BuilderClear(b) == NewBuilder

(***************************************************************************)
(* State.                                                                  *)
(***************************************************************************)
VARIABLES
  wp,            \* this._wp
  readStream,    \* this._readStream: 0 for null, else an index of streams
  checkRecType,  \* this._checkRecType
  foundType,     \* this._foundType
  starting,      \* this._starting
  parsing,       \* this._parsing
  crlfCount,     \* this._crlfCounter.count
  builder,       \* this._builder
  lastBegin,     \* let lastBegin, of the live session's closure
  buildKey,      \* let buildKey, of the live session's closure
  streams,       \* every read resource opened so far: "open" or "closed"
  source,        \* the path the newest read resource was opened on
  transport,     \* the newest session's pipeline
  sid,           \* sessions begun
  logOf,         \* the session the logs below belong to
  lines,         \* the lines delivered to that session
  emitted,       \* the notifications that session emitted
  calls,         \* the builder calls that session made
  raised,        \* the errors that session's transport raised
  terminals,     \* per session, its 'done' and 'error' notifications
  threw,         \* start() has thrown on this parser
  lastOp         \* the operation that ran last, with what it returned

parserVars == <<wp, readStream, checkRecType, foundType, starting, parsing,
                crlfCount, builder, lastBegin, buildKey>>
logVars == <<logOf, lines, emitted, calls, raised>>
vars == <<parserVars, streams, source, transport, sid, logVars, terminals, threw,
          lastOp>>

\* constructor (wp = null): the default replaces an undefined argument
Constructor(arg) == IF arg = Undef THEN Null ELSE arg

\* what callers construct the parser with
CtorArgs == {Undef, Null, "a.warc"}

Init ==
  /\ \E arg \in CtorArgs : wp = Constructor(arg)
  /\ readStream = 0
  /\ checkRecType = FALSE
  /\ foundType = FALSE
  /\ starting = TRUE
  /\ parsing = FALSE
  /\ crlfCount = 0
  /\ builder = NewBuilder
  /\ lastBegin = Undef
  /\ buildKey = Undef
  /\ streams = <<>>
  /\ source = Undef
  /\ transport = "none"
  /\ sid = 0
  /\ logOf = 0
  /\ lines = <<>>
  /\ emitted = <<>>
  /\ calls = <<>>
  /\ raised = <<>>
  /\ terminals = <<>>
  /\ threw = FALSE
  /\ lastOp = [op |-> "new", arg |-> "", ret |-> "-", began |-> FALSE]

(***************************************************************************)
(* Log entries.                                                            *)
(***************************************************************************)
Notify(ev, rec, err) ==
  [ev |-> ev, rec |-> rec, err |-> err, at |-> Len(lines) + 1]

Call(op, key, count, line, bgn) ==
  [op |-> op, key |-> key, count |-> count, line |-> line, bgn |-> bgn,
   at |-> Len(lines) + 1]

(***************************************************************************)
(* start() and parseWARC(wp)                                               *)
(***************************************************************************)
\* parseWARC assigning the path without looking at this._parsing
ParseWARCPathUnguarded(p) == IF Falsy(p) THEN wp ELSE p

\* parseWARC preferring the path configured earlier: this._wp || wp
ParseWARCPathKeepsOld(p) ==
  IF ~parsing THEN (IF Falsy(wp) THEN p ELSE wp) ELSE wp

\* the path parseWARC leaves configured
ParseWARCPath(p) ==
  IF ~parsing THEN (IF Falsy(p) THEN wp ELSE p) ELSE wp

\* start() without its check of the path
StartOutcomeNoPathCheck(path) == IF ~parsing THEN "begin" ELSE "busy"

\* which way start() goes for a configured path
StartOutcome(path) ==
  IF ~parsing
  THEN IF path = Null \/ path = Undef THEN "throw" ELSE "begin"
  ELSE "busy"

\* what start() returns on each way
StartReturn(outcome) ==
  CASE outcome = "busy" -> "false"
    [] outcome = "throw" -> "throw"
    [] outcome = "begin" -> "undefined"

\* the home directory untildify puts in the place of a leading ~
Home == "/home/user"

\* untildify(path): the paths fed to the model carry no ~
Untildify(path) == IF path = "~" THEN Home ELSE path

\* start() as the caller's call op(arg), with path the configured path
StartWith(op, arg, path) ==
  LET outcome == StartOutcome(path) IN
  /\ lastOp' = [op |-> op, arg |-> arg, ret |-> StartReturn(outcome),
                began |-> (outcome = "begin")]
  /\ wp' = path
  /\ CASE outcome = "busy" ->
            /\ UNCHANGED <<readStream, checkRecType, foundType, starting, parsing,
                           crlfCount, builder, lastBegin, buildKey>>
            /\ UNCHANGED <<streams, source, transport, sid, logVars, terminals,
                           threw>>
       [] outcome = "throw" ->
            /\ threw' = TRUE
            /\ UNCHANGED <<readStream, checkRecType, foundType, starting, parsing,
                           crlfCount, builder, lastBegin, buildKey>>
            /\ UNCHANGED <<streams, source, transport, sid, logVars, terminals>>
       [] outcome = "begin" ->
            /\ sid < MaxSessions
            /\ starting' = TRUE
            /\ parsing' = TRUE
            /\ lastBegin' = Undef
            /\ buildKey' = Undef
            /\ streams' = Append(streams, "open")
            /\ source' = Untildify(path)
            /\ readStream' = Len(streams) + 1
            /\ transport' = "flowing"
            /\ sid' = sid + 1
            /\ logOf' = sid + 1
            /\ lines' = <<>>
            /\ emitted' = <<>>
            /\ calls' = <<>>
            /\ raised' = <<>>
            /\ terminals' = Append(terminals, <<>>)
            /\ UNCHANGED <<checkRecType, foundType, crlfCount, builder, threw>>

Start == StartWith("start", "", wp)

ParseWARC(p) == StartWith("parseWARC", p, ParseWARCPath(p))

(***************************************************************************)
(* _checkType(line, lastBegin)                                             *)
(***************************************************************************)
\* the type _checkType initialises the builder for, "Unknown" for none
CheckTypeInit(line) ==
  IF Req = line THEN "request"
  ELSE LET isRes == (Res = line) IN
       IF isRes THEN "response"
       ELSE IF isRes THEN "revisit"
       ELSE IF Info = line THEN "info"
       ELSE IF Mdata = line THEN "metadata"
       ELSE "Unknown"

\* what _checkType returns
CheckTypeKey(line) ==
  LET t == CheckTypeInit(line) IN
  IF t = "Unknown" THEN Undef ELSE BuilderKey(t)

(***************************************************************************)
(* The 'data' handler.                                                     *)
(***************************************************************************)
\* the type check also taking a blank line
ShouldCheckTypeAnyLine(line) == checkRecType

\* the second branch of the handler: this._checkRecType && !isEmptyLine
ShouldCheckType(line) == checkRecType /\ ~(Empty = line)

\* a counter that counts only the blank lines that follow the type line
CounterIncrementAfterType(count) == IF checkRecType THEN count ELSE count + 1

\* this._crlfCounter.increment()
CounterIncrement(count) == count + 1

\* the begin branch emitting at the first begin sentinel too
BeginEmitsAlways == TRUE

\* the begin branch emits the record in progress
BeginEmits == ~starting

Data(line, max) ==
  /\ transport = "flowing"
  /\ Len(lines) < max
  /\ lines' = Append(lines, line)
  /\ lastOp' = [op |-> "data", arg |-> line, ret |-> "-", began |-> FALSE]
  /\ IF Begin = line
     THEN /\ IF BeginEmits
             THEN /\ emitted' = Append(emitted,
                        Notify("record", BuilderBuildRecord(builder, buildKey), ""))
                  /\ calls' = Append(Append(calls,
                                  Call("buildRecord", buildKey, 0, "", "")),
                                  Call("emit", Undef, 0, "record", ""))
                  /\ UNCHANGED starting
             ELSE /\ starting' = FALSE
                  /\ UNCHANGED <<emitted, calls>>
          /\ crlfCount' = 0
          /\ checkRecType' = TRUE
          /\ lastBegin' = line
          /\ UNCHANGED <<foundType, builder, buildKey>>
     ELSE IF ShouldCheckType(line)
     THEN LET t == CheckTypeInit(line)
              checked == Append(calls, Call("checkType", Undef, 0, line, lastBegin))
          IN
          /\ buildKey' = CheckTypeKey(line)
          /\ checkRecType' = FALSE
          /\ foundType' = (t # "Unknown")
          /\ IF t # "Unknown"
             THEN /\ builder' = BuilderInit(builder, t, lastBegin, line)
                  /\ calls' = Append(checked,
                                  Call("init", BuilderKey(t), 0, line, lastBegin))
             ELSE /\ calls' = checked
                  /\ UNCHANGED builder
          /\ UNCHANGED <<starting, crlfCount, lastBegin, emitted>>
     ELSE IF Empty = line
     THEN /\ crlfCount' = CounterIncrement(crlfCount)
          /\ UNCHANGED <<checkRecType, foundType, starting, builder, lastBegin,
                         buildKey, emitted, calls>>
     ELSE /\ builder' = BuilderAddLineTo(builder, buildKey, crlfCount, line)
          /\ calls' = Append(calls, Call("addLineTo", buildKey, crlfCount, line, ""))
          /\ UNCHANGED <<checkRecType, foundType, starting, crlfCount, lastBegin,
                         buildKey, emitted>>
  /\ UNCHANGED <<wp, readStream, parsing, streams, source, transport, sid, logOf,
                 raised, terminals, threw>>

(***************************************************************************)
(* The 'data' handler as a function of the state it reads and writes, and  *)
(* the run of a newly constructed parser over a sequence of lines.         *)
(***************************************************************************)
NewParser ==
  [starting |-> TRUE, checkRecType |-> FALSE, crlfCount |-> 0,
   builder |-> NewBuilder, lastBegin |-> Undef, buildKey |-> Undef,
   emitted |-> <<>>, calls |-> <<>>]

\* one call of the 'data' handler, for the line at place at
DataStep(st, line, at) ==
  LET call(op, key, count, ln, bgn) ==
        [op |-> op, key |-> key, count |-> count, line |-> ln, bgn |-> bgn,
         at |-> at]
  IN
  IF Begin = line
  THEN LET begun == [st EXCEPT !.crlfCount = 0, !.checkRecType = TRUE,
                               !.lastBegin = line]
       IN
       IF ~st.starting
       THEN [begun EXCEPT
               !.emitted = Append(@, [ev |-> "record",
                                      rec |-> BuilderBuildRecord(st.builder, st.buildKey),
                                      err |-> "", at |-> at]),
               !.calls = @ \o << call("buildRecord", st.buildKey, 0, "", ""),
                                call("emit", Undef, 0, "record", "") >>]
       ELSE [begun EXCEPT !.starting = FALSE]
  ELSE IF st.checkRecType /\ ~(Empty = line)
  THEN LET t == CheckTypeInit(line)
           checked == Append(st.calls, call("checkType", Undef, 0, line, st.lastBegin))
       IN
       IF t # "Unknown"
       THEN [st EXCEPT !.buildKey = CheckTypeKey(line), !.checkRecType = FALSE,
                       !.builder = BuilderInit(st.builder, t, st.lastBegin, line),
                       !.calls = Append(checked,
                                   call("init", BuilderKey(t), 0, line, st.lastBegin))]
       ELSE [st EXCEPT !.buildKey = CheckTypeKey(line), !.checkRecType = FALSE,
                       !.calls = checked]
  ELSE IF Empty = line
  THEN [st EXCEPT !.crlfCount = @ + 1]
  ELSE [st EXCEPT
          !.builder = BuilderAddLineTo(st.builder, st.buildKey, st.crlfCount, line),
          !.calls = Append(@, call("addLineTo", st.buildKey, st.crlfCount, line, ""))]

RECURSIVE FreshRun(_)
\* what a newly constructed parser has done after the lines ls
FreshRun(ls) ==
  IF ls = <<>> THEN NewParser
  ELSE DataStep(FreshRun(SubSeq(ls, 1, Len(ls) - 1)), ls[Len(ls)], Len(ls))

(***************************************************************************)
(* The 'error' handler, attached to the line splitter the read stream is   *)
(* piped into.                                                             *)
(***************************************************************************)
\* the line splitter raises e: the handler emits 'error' and does nothing
\* else (this._parsing stays set, the read stream is not destroyed); pipe()
\* detaches the read stream from the failed splitter, so no line follows
SplitError(e) ==
  /\ transport = "flowing"
  /\ raised' = Append(raised, [src |-> "split", err |-> e])
  /\ emitted' = Append(emitted, Notify("error", EmptyRecord, e))
  /\ terminals' = [terminals EXCEPT ![sid] = Append(@, "error")]
  /\ transport' = "errored"
  /\ lastOp' = [op |-> "error", arg |-> e, ret |-> "-", began |-> FALSE]
  /\ calls' = Append(calls, Call("emit", Undef, 0, "error", ""))
  /\ UNCHANGED <<parserVars, streams, source, sid, logOf, lines, threw>>

\* the read stream raises e: it carries no 'error' listener and pipe() does
\* not forward its errors to the splitter, so no handler of the parser runs;
\* the stream closes itself (autoClose) and the splitter never ends
ReadError(e) ==
  /\ transport = "flowing"
  /\ raised' = Append(raised, [src |-> "read", err |-> e])
  /\ streams' = [streams EXCEPT ![sid] = "closed"]
  /\ transport' = "readfailed"
  /\ lastOp' = [op |-> "readerror", arg |-> e, ret |-> "-", began |-> FALSE]
  /\ UNCHANGED <<parserVars, source, sid, logOf, lines, emitted, calls, terminals,
                 threw>>

(***************************************************************************)
(* The 'end' handler.  A 'done' listener runs inside emit, after           *)
(* this._parsing = false: it may call start() or parseWARC(p) itself.      *)
(***************************************************************************)
ListenerActs == {"none", "start", "parseWARC"}

\* the final record built after this._builder.clear()
EndRecordAfterClear == BuilderBuildRecord(BuilderClear(builder), buildKey)

\* the final record: this._builder.buildRecord(buildKey)
EndRecord == BuilderBuildRecord(builder, buildKey)

End(act, p) ==
  LET path == IF act = "parseWARC" THEN (IF Falsy(p) THEN wp ELSE p) ELSE wp
      restarts == act # "none"
      opened == IF restarts THEN Append(streams, "open") ELSE streams
      current == IF restarts THEN Len(streams) + 1 ELSE readStream
  IN
  /\ transport = "flowing"
  /\ act # "parseWARC" => p = ""
  /\ restarts => (path # Null /\ path # Undef /\ sid < MaxSessions)
  /\ emitted' = Append(emitted, Notify("done", EndRecord, ""))
  /\ calls' = calls \o << Call("buildRecord", buildKey, 0, "", ""),
                          Call("emit", Undef, 0, "done", ""),
                          Call("destroy", Undef, 0, "", ""),
                          Call("clear", Undef, 0, "", "") >>
  /\ terminals' = IF restarts
                  THEN Append([terminals EXCEPT ![sid] = Append(@, "done")], <<>>)
                  ELSE [terminals EXCEPT ![sid] = Append(@, "done")]
  /\ wp' = path
  /\ parsing' = restarts
  /\ starting' = IF restarts THEN TRUE ELSE starting
  /\ lastBegin' = IF restarts THEN Undef ELSE lastBegin
  /\ buildKey' = IF restarts THEN Undef ELSE buildKey
  /\ readStream' = current
  /\ source' = IF restarts THEN Untildify(path) ELSE source
  \* the ended read stream closes itself; destroy() closes this._readStream
  /\ streams' = [i \in 1..Len(opened) |->
                   IF i = sid \/ i = current THEN "closed" ELSE opened[i]]
  /\ builder' = BuilderClear(builder)
  /\ transport' = IF restarts THEN "destroyed" ELSE "ended"
  /\ sid' = IF restarts THEN sid + 1 ELSE sid
  /\ lastOp' = [op |-> "end", arg |-> act, ret |-> "-", began |-> FALSE]
  /\ UNCHANGED <<checkRecType, foundType, crlfCount, logOf, lines, raised, threw>>

(***************************************************************************)
(* The specification.                                                      *)
(***************************************************************************)
Next ==
  \/ Start
  \/ \E p \in Paths : ParseWARC(p)
  \/ \E line \in SessionLines : Data(line, MaxLines)
  \/ \E e \in Errors : SplitError(e)
  \/ \E e \in Errors : ReadError(e)
  \/ \E act \in ListenerActs, p \in Paths \cup {""} : End(act, p)

Spec == Init /\ [][Next]_vars

(***************************************************************************)
(* One session on a parser constructed with a path, fed every kind of      *)
(* line, ending without a transport error.                                 *)
(***************************************************************************)
InitParse == Init /\ wp = "a.warc"

\* the first start() on the parser
StartSession == sid = 0 /\ Start

EndOfStream == End("none", "")

NextParse ==
  \/ StartSession
  \/ \E line \in Lines : Data(line, MaxParseLines)
  \/ EndOfStream

SpecParse == InitParse /\ [][NextParse]_vars

(***************************************************************************)
(* Vocabulary of the properties.                                           *)
(***************************************************************************)
CallOps == {"start", "parseWARC"}

Range(s) == {s[i] : i \in 1..Len(s)}

\* the begin sentinels among the lines delivered
BeginAt == {i \in 1..Len(lines) : lines[i] = Begin}

\* the stream of the logged session has ended ('end' was delivered)
StreamEnded == transport \in {"ended", "destroyed"}

\* line i is the first line after a begin sentinel that is not blank
TypeLineAt(i) ==
  /\ lines[i] \notin {Begin, Empty}
  /\ \E j \in 1..(i - 1) :
       /\ lines[j] = Begin
       /\ \A k \in (j + 1)..(i - 1) : lines[k] = Empty

\* the place of the first begin sentinel after line i, or of end-of-stream
NextBegin(i) ==
  LET later == {j \in BeginAt : j > i} IN
  IF later = {} THEN Len(lines) + 1
  ELSE CHOOSE j \in later : \A k \in later : j <= k

\* the builder calls that belong to the record whose type line is line i
CallsOfRecord(i) ==
  {c \in Range(calls) : /\ c.op \in {"addLineTo", "buildRecord"}
                        /\ c.at > i
                        /\ c.at <= NextBegin(i)}

\* the notifications that carry the record whose type line is line i
EmittedOfRecord(i) ==
  {n \in Range(emitted) : n.ev \in {"record", "done"} /\ n.at = NextBegin(i)}

everythingButTheCall ==
  <<parserVars, streams, source, transport, sid, logVars, terminals>>

(***************************************************************************)
(* C1: a stream with N >= 1 begin sentinels that ends without a transport  *)
(* error yields exactly N-1 'record' notifications, then exactly one       *)
(* 'done', and nothing after it; before the end only 'record' is emitted.  *)
(***************************************************************************)
C1_RecordsThenDone ==
  LET n == Cardinality(BeginAt) IN
  /\ (StreamEnded /\ n >= 1) =>
        /\ Len(emitted) = n
        /\ \A i \in 1..(n - 1) : emitted[i].ev = "record"
        /\ emitted[n].ev = "done"
  /\ (transport = "flowing" /\ n >= 1) =>
        /\ Len(emitted) = n - 1
        /\ \A i \in 1..(n - 1) : emitted[i].ev = "record"

\* the second session of a parser ended after two begin sentinels
C1_Witness ==
  /\ logOf = 2
  /\ transport = "ended"
  /\ Cardinality(BeginAt) = 2
  /\ Len(emitted) = 2
  /\ emitted[1].ev = "record"
  /\ emitted[2].ev = "done"

(***************************************************************************)
(* C2: every session whose transport has ended or raised an error has      *)
(* delivered exactly one terminal notification, and no session ever        *)
(* delivers more than one.                                                 *)
(***************************************************************************)
C2_ExactlyOneTerminal ==
  /\ \A s \in 1..Len(terminals) : Len(terminals[s]) <= 1
  /\ \A s \in 1..(sid - 1) : Len(terminals[s]) = 1
  /\ transport \in {"ended", "errored", "readfailed"} => Len(terminals[sid]) = 1

(***************************************************************************)
(* C3: start() or parseWARC(p) called while a session is in progress       *)
(* returns false and changes nothing: no read resource is opened, and the  *)
(* path, the flags, the counter, the build key, the builder and all the    *)
(* session has delivered and will deliver stay as they were.               *)
(***************************************************************************)
C3_BusyCallIsRejected ==
  [][(parsing /\ lastOp'.op \in CallOps) =>
        /\ lastOp'.ret = "false"
        /\ ~lastOp'.began
        /\ UNCHANGED everythingButTheCall]_vars

\* parseWARC with another path, rejected in the middle of a session
C3_Witness ==
  /\ lastOp.op = "parseWARC"
  /\ lastOp.arg = "b.warc"
  /\ lastOp.ret = "false"
  /\ wp = "a.warc"
  /\ parsing
  /\ transport = "flowing"
  /\ Len(lines) >= 1

(***************************************************************************)
(* C4: start() and parseWARC(p) return true when the call begins a session *)
(* and false when a session was already in progress.                       *)
(***************************************************************************)
C4_ReturnsWhetherStarted ==
  (lastOp.op \in CallOps /\ lastOp.ret # "throw") =>
     lastOp.ret = (IF lastOp.began THEN "true" ELSE "false")

(***************************************************************************)
(* C5: every error the transport raised, by the read resource or by the    *)
(* line splitter, has been delivered as an 'error' notification carrying   *)
(* that error.                                                             *)
(***************************************************************************)
C5_ErrorsAreForwarded ==
  \A i \in 1..Len(raised) :
     \E n \in Range(emitted) : n.ev = "error" /\ n.err = raised[i].err

(***************************************************************************)
(* C6: once a session has emitted 'error' the parser is no longer parsing, *)
(* and a start() or parseWARC(p) that follows is not rejected as busy.     *)
(***************************************************************************)
C6_ErrorEndsSession ==
  (sid >= 1 /\ terminals[sid] = <<"error">>) =>
     /\ ~parsing
     /\ lastOp.op \in CallOps => lastOp.ret # "false"

(***************************************************************************)
(* C7: at most one read resource is open at any time, and the read         *)
(* resource of a session that reached end-of-stream or reported an error   *)
(* is closed.                                                              *)
(***************************************************************************)
C7_ResourceReleased ==
  /\ Cardinality({i \in 1..Len(streams) : streams[i] = "open"}) <= 1
  /\ \A s \in 1..Len(terminals) : terminals[s] # <<>> => streams[s] = "closed"

(***************************************************************************)
(* C8: start() on an idle parser with no path configured throws, opens no  *)
(* read resource, emits nothing and leaves the parser idle and unchanged;  *)
(* parseWARC(p) with a path on an idle parser then begins a session on p.  *)
(***************************************************************************)
C8_ThrowsWithoutPath ==
  [][(~parsing /\ lastOp'.op \in CallOps) =>
        /\ (lastOp'.op = "start" /\ wp \in {Null, Undef}) =>
              /\ lastOp'.ret = "throw"
              /\ ~parsing'
              /\ UNCHANGED everythingButTheCall
        /\ (lastOp'.op = "parseWARC" /\ ~Falsy(lastOp'.arg)) =>
              /\ lastOp'.began
              /\ parsing'
              /\ wp' = lastOp'.arg
              /\ streams' = Append(streams, "open")
              /\ readStream' = Len(streams')
              /\ emitted' = <<>>]_vars

\* after start() threw, parseWARC with a path has begun the first session
C8_Witness ==
  /\ threw
  /\ lastOp.op = "parseWARC"
  /\ lastOp.began
  /\ parsing
  /\ sid = 1
  /\ streams = <<"open">>

(***************************************************************************)
(* C9: when the first non-blank line after a begin sentinel is the         *)
(* sentinel of one of the five record types, the builder is initialised    *)
(* for exactly that type with the begin line and the type line, and the    *)
(* key that init returned is the key of every later addLineTo and of the   *)
(* buildRecord of that record.                                             *)
(***************************************************************************)
C9_TypeLineInitialisesBuilder ==
  \A i \in 1..Len(lines) :
     (TypeLineAt(i) /\ TypeOfLine(lines[i]) # "Unknown") =>
        LET key == BuilderKey(TypeOfLine(lines[i])) IN
        /\ \E c \in Range(calls) :
              /\ c.op = "init" /\ c.at = i /\ c.key = key
              /\ c.bgn = Begin /\ c.line = lines[i]
        /\ \A c \in Range(calls) : (c.op = "init" /\ c.at = i) => c.key = key
        /\ \A c \in CallsOfRecord(i) : c.key = key

(***************************************************************************)
(* C10: when the type line of a record is no type sentinel, the builder    *)
(* is not initialised and no 'error' is emitted for it (the only 'error'   *)
(* notifications are the transport's errors), the lines up to the next     *)
(* begin sentinel go to no initialised record, the record emitted for it   *)
(* is the empty one, and the record after it is classified and emitted     *)
(* as its own type line says.                                              *)
(***************************************************************************)
C10_UnknownTypeIsIsolated ==
  \A i \in 1..Len(lines) :
     (TypeLineAt(i) /\ TypeOfLine(lines[i]) = "Unknown") =>
        /\ \A c \in Range(calls) : c.at = i => c.op # "init"
        /\ \A n \in Range(emitted) :
              n.ev = "error" => \E r \in Range(raised) : r.err = n.err
        /\ \A c \in CallsOfRecord(i) : c.key = Undef
        /\ \A n \in EmittedOfRecord(i) : n.rec = EmptyRecord
        /\ \A t \in (NextBegin(i) + 1)..Len(lines) :
              (TypeLineAt(t) /\ NextBegin(NextBegin(i)) > t
                 /\ TypeOfLine(lines[t]) # "Unknown") =>
                 /\ \E c \in Range(calls) :
                       /\ c.op = "init" /\ c.at = t
                       /\ c.key = BuilderKey(TypeOfLine(lines[t]))
                 /\ \A n \in EmittedOfRecord(t) :
                       /\ n.rec.type = TypeOfLine(lines[t])
                       /\ Len(n.rec.headers) >= 2
                       /\ n.rec.headers[1] = Begin
                       /\ n.rec.headers[2] = lines[t]

(***************************************************************************)
(* C11: the payload of an emitted record is the in-order sequence of all   *)
(* the lines received after the blank-line threshold of its type and       *)
(* before the next begin sentinel or end-of-stream.                        *)
(***************************************************************************)
\* the begin sentinel that opens the record whose type line is line i
RecordBegin(i) ==
  CHOOSE b \in BeginAt : b < i /\ \A k \in BeginAt : k < i => k <= b

\* the blank lines received after line b and before line j
BlanksBetween(b, j) ==
  Cardinality({k \in (b + 1)..(j - 1) : lines[k] = Empty})

\* the places, in order, of the lines of record i past its threshold
PayloadPlaces(i) ==
  LET past(j) == /\ j > i
                 /\ j < NextBegin(i)
                 /\ BlanksBetween(RecordBegin(i), j)
                       >= Threshold(TypeOfLine(lines[i]))
  IN SelectSeq([j \in 1..Len(lines) |-> j], past)

PayloadLines(i) ==
  LET places == PayloadPlaces(i) IN
  [k \in 1..Len(places) |-> lines[places[k]]]

C11_PayloadIsEveryLinePastThreshold ==
  \A i \in 1..Len(lines) :
     (TypeLineAt(i) /\ TypeOfLine(lines[i]) # "Unknown") =>
        \A n \in EmittedOfRecord(i) : n.rec.payload = PayloadLines(i)

(***************************************************************************)
(* C12: a session yields the notifications and the builder calls (init,    *)
(* addLineTo with key, count and line, buildRecord with key) that a newly  *)
(* constructed parser yields on the same lines, whatever an earlier        *)
(* session on the same parser left behind.                                 *)
(***************************************************************************)
BuilderOps == {"init", "addLineTo", "buildRecord"}

\* the builder calls among cs that the 'data' handler made
DataBuilderCalls(cs) ==
  LET made(c) == c.op \in BuilderOps /\ c.at <= Len(lines) IN
  SelectSeq(cs, made)

\* the notifications among ns of kind ev
Notifications(ns, ev) ==
  LET is(n) == n.ev = ev IN SelectSeq(ns, is)

C12_SessionSameAsFresh ==
  logOf >= 1 =>
     LET fresh == FreshRun(lines) IN
     /\ Notifications(emitted, "record") = fresh.emitted
     /\ DataBuilderCalls(calls) = DataBuilderCalls(fresh.calls)
     /\ \A n \in Range(emitted) :
           n.ev = "done" => n.rec = BuilderBuildRecord(fresh.builder, fresh.buildKey)
     /\ \A c \in Range(calls) :
           (c.op = "buildRecord" /\ c.at > Len(lines)) => c.key = fresh.buildKey

\* the first session of a parser is the run of a newly constructed parser
FirstSessionIsFresh == logOf = 1 => C12_SessionSameAsFresh

(***************************************************************************)
(* C13: on an idle parser parseWARC(p) with a non-empty p configures p and *)
(* opens the session's read resource on p, whatever was configured before; *)
(* start() and parseWARC without a path open it on the configured path;    *)
(* and the configured path changes only by a parseWARC(p) with a path.     *)
(***************************************************************************)
C13_ParseWARCPathIsTheSource ==
  [][/\ (~parsing /\ lastOp'.op \in CallOps /\ lastOp'.began) =>
          LET given == lastOp'.op = "parseWARC" /\ ~Falsy(lastOp'.arg)
              path == IF given THEN lastOp'.arg ELSE wp
          IN /\ wp' = path
             /\ source' = Untildify(path)
             /\ streams' = Append(streams, "open")
     /\ (~parsing /\ lastOp'.op = "parseWARC" /\ ~Falsy(lastOp'.arg)) =>
          lastOp'.began
     /\ wp' # wp =>
          \/ lastOp'.op = "parseWARC" /\ ~Falsy(lastOp'.arg) /\ wp' = lastOp'.arg
          \/ lastOp'.op = "end" /\ lastOp'.arg = "parseWARC"]_vars

\* a later start() has opened the path an earlier parseWARC configured
C13_Witness ==
  /\ lastOp.op = "start"
  /\ lastOp.began
  /\ sid = 2
  /\ wp = "b.warc"
  /\ source = "b.warc"
  /\ streams = <<"closed", "open">>

(***************************************************************************)
(* C14: 'record' is emitted at a begin sentinel only when a record was     *)
(* classified since the previous begin sentinel, never at the first begin  *)
(* sentinel, and no two notifications carry the record of the same         *)
(* classification.                                                         *)
(***************************************************************************)
\* the place of the last type line before place a, 0 for none
LastTypeLine(a) ==
  LET before == {i \in 1..Len(lines) : i < a /\ TypeLineAt(i)} IN
  IF before = {} THEN 0
  ELSE CHOOSE i \in before : \A k \in before : k <= i

C14_RecordOncePerClassification ==
  /\ \A n \in Range(emitted) :
        n.ev = "record" =>
           /\ n.at \in BeginAt
           /\ \E b \in BeginAt : b < n.at
           /\ \E i \in 1..Len(lines) : TypeLineAt(i) /\ NextBegin(i) = n.at
  /\ \A n1, n2 \in Range(emitted) :
        (n1.ev \in {"record", "done"} /\ n2.ev \in {"record", "done"}
           /\ n1.at # n2.at) =>
           LastTypeLine(n1.at) # LastTypeLine(n2.at)

(***************************************************************************)
(* C15: after a begin sentinel and before the next one the type check runs *)
(* once at most, on the first line that is neither blank nor a begin       *)
(* sentinel, and no line is passed to addLineTo between the begin sentinel *)
(* and that check.                                                         *)
(***************************************************************************)
\* the places at which _checkType ran
CheckedAt == {c.at : c \in {x \in Range(calls) : x.op = "checkType"}}

C15_TypeCheckOncePerRecord ==
  /\ \A a \in CheckedAt : (\E b \in BeginAt : b < a) => TypeLineAt(a)
  /\ \A i \in 1..Len(lines) :
        TypeLineAt(i) =>
           Cardinality({k \in 1..Len(calls) :
                          calls[k].op = "checkType" /\ calls[k].at = i}) = 1
  /\ \A c \in Range(calls) :
        (c.op = "addLineTo" /\ \E b \in BeginAt : b < c.at) =>
           \E a \in CheckedAt : a < c.at /\ NextBegin(a) >= c.at /\ TypeLineAt(a)

\* in a second session blank lines came between the begin sentinel and the
\* line that was checked
C15_Witness ==
  /\ logOf = 2
  /\ lines = <<Begin, Empty, Other>>
  /\ CheckedAt = {3}

(***************************************************************************)
(* C16: addLineTo is called exactly for the lines that are neither a begin *)
(* sentinel, nor blank, nor the type line of a record: once for each such  *)
(* line, in the order of the stream, with the line itself.  A blank line   *)
(* or a begin sentinel is never forwarded.                                 *)
(***************************************************************************)
\* the places, in order, of the lines that are content
ContentPlaces ==
  LET content(i) == lines[i] \notin {Begin, Empty} /\ ~TypeLineAt(i)
  IN SelectSeq([i \in 1..Len(lines) |-> i], content)

\* the addLineTo calls, in the order they were made
AddLineCalls == SelectSeq(calls, LAMBDA c : c.op = "addLineTo")

C16_AddLineToExactlyForContent ==
  /\ Len(AddLineCalls) = Len(ContentPlaces)
  /\ \A k \in 1..Len(AddLineCalls) :
        /\ k <= Len(ContentPlaces)
        /\ AddLineCalls[k].at = ContentPlaces[k]
        /\ AddLineCalls[k].line = lines[ContentPlaces[k]]
  /\ \A c \in Range(calls) : c.op = "addLineTo" => c.line \notin {Begin, Empty}

\* the second half alone: no blank line or begin sentinel is ever forwarded
NoSentinelForwarded ==
  \A c \in Range(calls) : c.op = "addLineTo" => c.line \notin {Begin, Empty}

\* within the first session of a parser
FirstSessionForwardsContent == logOf = 1 => C16_AddLineToExactlyForContent

(***************************************************************************)
(* C17: the blank-line counter becomes 0 at every begin sentinel and grows *)
(* by exactly 1 at every blank line (no other line changes it), so the     *)
(* count passed with an addLineTo call made after a begin sentinel is the  *)
(* number of blank lines received since the most recent begin sentinel,    *)
(* those before the type line included; the counter is never negative.     *)
(***************************************************************************)
\* this step is the data handler receiving a line
DataStepTaken == Len(lines') = Len(lines) + 1

CountsAfterBegin ==
  \A c \in Range(calls) :
     (c.op = "addLineTo" /\ \E b \in BeginAt : b < c.at) =>
        c.count = BlanksBetween(RecordBegin(c.at), c.at)

C17_CounterCountsBlankLines ==
  [][ /\ DataStepTaken =>
           LET line == lines'[Len(lines')] IN
           /\ line = Begin => crlfCount' = 0
           /\ line = Empty => crlfCount' = crlfCount + 1
           /\ line \notin {Begin, Empty} => crlfCount' = crlfCount
      /\ CountsAfterBegin'
      /\ crlfCount' >= 0
      /\ \A c \in Range(calls') : c.count >= 0 ]_vars

\* a content line forwarded with a count of 2: one blank line before the
\* type line and one after it
C17_Witness ==
  /\ lines = <<Begin, Empty, Info, Empty, Other>>
  /\ calls[Len(calls)].op = "addLineTo"
  /\ calls[Len(calls)].count = 2
  /\ crlfCount = 2

(***************************************************************************)
(* The end handler, as one step.                                           *)
(***************************************************************************)
\* this step is the end handler running
EndStepTaken == lastOp'.op = "end" /\ Len(emitted') = Len(emitted) + 1

\* the key the most recent type check of the session returned
LastCheckKey ==
  LET checks == {k \in 1..Len(calls) : calls[k].op = "checkType"} IN
  IF checks = {} THEN Undef
  ELSE CheckTypeKey(calls[CHOOSE k \in checks : \A j \in checks : j <= k].line)

\* the order of the handler's steps, and what each of them worked on
EndHandlerOrder ==
  LET n == Len(calls')
      done == emitted'[Len(emitted')]
  IN
  /\ n = Len(calls) + 4
  /\ SubSeq(calls', 1, Len(calls)) = calls
  /\ calls'[n - 3].op = "buildRecord" /\ calls'[n - 3].key = buildKey
  /\ calls'[n - 2].op = "emit" /\ calls'[n - 2].line = "done"
  /\ calls'[n - 1].op = "destroy"
  /\ calls'[n].op = "clear"
  /\ buildKey = LastCheckKey
  /\ done.ev = "done"
  /\ done.rec = BuilderBuildRecord(builder, buildKey)
  /\ streams'[sid] = "closed"
  /\ builder' = NewBuilder

(***************************************************************************)
(* C18: at end-of-stream the final record is built from the builder state  *)
(* of the last classified record, then 'done' is emitted with it, then the *)
(* read resource is released, then the builder is cleared; the builder is  *)
(* never cleared before the final record is built, and after the handler   *)
(* the parser is idle and the builder holds no accumulated state.          *)
(***************************************************************************)
C18_EndHandlerLeavesParserIdle ==
  [][EndStepTaken => (EndHandlerOrder /\ ~parsing')]_vars

\* C18 as amended: the same, but the parser is idle after the handler unless
\* a 'done' listener started a new session from inside it.
C18_EndHandlerOrderIdleUnlessRestarted ==
  [][EndStepTaken =>
       /\ EndHandlerOrder
       /\ lastOp'.arg = "none" => ~parsing'
       /\ lastOp'.arg # "none" => parsing']_vars

\* a stream with a warcinfo record has ended, 'done' carried that record and
\* the builder is empty again
C18_Witness ==
  /\ lastOp.op = "end"
  /\ lastOp.arg = "none"
  /\ lines = <<Begin, Info, Other>>
  /\ emitted[Len(emitted)].ev = "done"
  /\ emitted[Len(emitted)].rec.type = "info"
  /\ emitted[Len(emitted)].rec.headers # <<>>
  /\ builder = NewBuilder
  /\ ~parsing
  /\ streams[sid] = "closed"

(***************************************************************************)
(* C19: a session started from inside a 'done' listener is not disturbed   *)
(* by the rest of the finished session's end handler: what the handler     *)
(* releases after the listener returns is the finished session's own read  *)
(* resource, the new session's read resource stays open and its stream     *)
(* keeps flowing, so that the new session can reach its own terminal       *)
(* notification.                                                           *)
(***************************************************************************)
C19_RestartedSessionUndisturbed ==
  (lastOp.op = "end" /\ lastOp.arg # "none") =>
     /\ parsing
     /\ readStream = sid
     /\ streams[sid - 1] = "closed"
     /\ streams[sid] = "open"
     /\ transport = "flowing"

TypeOK ==
  /\ wp \in Paths \ {Undef}
  /\ readStream \in 0..Len(streams)
  /\ parsing \in BOOLEAN /\ starting \in BOOLEAN
  /\ checkRecType \in BOOLEAN /\ foundType \in BOOLEAN
  /\ crlfCount \in Nat
  /\ buildKey \in RecTypes \cup {Undef}
  /\ sid = Len(streams) /\ sid = Len(terminals) /\ sid <= MaxSessions
  /\ Len(lines) <= MaxParseLines

=============================================================================
